---------------------------- MODULE Spec2Model ----------------------------
(***************************************************************************)
(* A model of github.com/dstgo/dontstarve, package pkg/proc: the closable  *)
(* Channel (helper.go), the output fan-out dispatcher (listenOutStream)    *)
(* and the process supervisor Proc (proc.go).                              *)
(*                                                                         *)
(* Three specifications share the module:                                  *)
(*   SpecChan  goroutines calling the methods of one Channel, one          *)
(*             statement of the source per step;                           *)
(*   SpecOut   one call of listenOutStream with its worker-pool tasks and  *)
(*             the subscribers' receive loops;                             *)
(*   Spec      a Proc built by NewProc, its binding calls, Start, Wait,    *)
(*             Signal, Terminate, Interrupt and Kill.                      *)
(***************************************************************************)
EXTENDS Integers, Sequences, FiniteSets, TLC

(***************************************************************************)
(* Bounds of the model.                                                    *)
(***************************************************************************)
\* largest buffer size passed to MakeChannel in SpecChan
MaxCap == 1
\* number of method calls the goroutines of SpecChan make in one run
MaxCalls == 4
\* number of chunks (lines) the child writes to its output in SpecOut
MaxChunks == 3
\* workers of the pool in SpecOut: ants.NewPool(20, ...) in the source, scaled
\* down; the child writes more chunks than the pool has workers
PoolSize == 2
\* number of values the caller's goroutines send to the input Streams in one
\* run of SpecIn
MaxWrites == 2

\* the zero value of []byte (nil), returned when no value is present
Zero == 0

\* goroutines are named by kind and number: the callers of SpecChan
Users == {<<"u", 1>>, <<"u", 2>>}

VARIABLES
    streams,    \* stream id -> Channel: [val, Locker, ch]
    pc,         \* goroutine -> the statement it is at
    loc,        \* goroutine -> its locals: [op, st, id, v, ok, late]
    wk,         \* goroutine -> what woke it from a parked channel operation
    calls,      \* SpecChan: number of method calls made so far
    closeDone,  \* SpecChan: some Close call has returned
    hist        \* SpecChan: the calls that have returned, each with its results

chanVars == <<streams, pc, loc, wk, calls, closeDone, hist>>

VARIABLES
    \* ---- listenOutStream (SpecOut)
    readChs,    \* the registry passed as readChs: the subscribers bound
    stalled,    \* the subscribers that never receive from their Stream
    scanned,    \* number of chunks (lines) the child wrote and Scan returned
    todo,       \* the subscribers the range loop has still to visit
    rdErr,      \* what the reader task returned: [kind, sub, held]
    ctxDone,    \* ctx.Done() is closed
    task,       \* worker -> the dispatch task it runs: [idx, sub, data]
    got,        \* subscriber -> the chunks it received, in order
    drops       \* the chunks dropped: a set of [sub, idx, why]

outVars == <<readChs, stalled, scanned, todo, rdErr, ctxDone,
             task, got, drops>>

VARIABLES
    \* ---- Proc (Spec)
    opts,       \* the Options the caller's Option functions built in NewProc
    p,          \* the Proc: [options, proc, process, state, Pipe, Chs, group,
                \*            workerPool, cancelled]
    cmd,        \* p.cmd, the exec.Cmd: [started, ProcessState]
    child,      \* the child process: [st, code, pending]
    listening,  \* the directions whose listener goroutines start() has started
    last        \* the call the main goroutine is in, or has last returned from

procVars == <<opts, p, cmd, child, listening, last>>

VARIABLES
    \* ---- listenStdinPipe (SpecIn)
    stdinMu,    \* p.stdinMu: 0 when free, else the subscriber whose task holds it
    wrote,      \* what the writes put into p.stdinPipe, in order: [sub, v, part]
    inErr       \* subscriber -> what its task returned or is about to return

inVars == <<stdinMu, wrote, inErr>>

vars == <<streams, pc, loc, wk, calls, closeDone, hist,
          readChs, stalled, scanned, todo, rdErr, ctxDone,
          task, got, drops,
          opts, p, cmd, child, listening, last,
          stdinMu, wrote, inErr>>

(***************************************************************************)
(* Go's channel, as the runtime implements it: each operation is atomic.   *)
(* A channel is [cap, buf, closed, sendq, recvq]; sendq holds the parked   *)
(* senders with their values, recvq the parked receivers, both in arrival  *)
(* order. Each operator returns the new channel, the outcome for the       *)
(* calling goroutine and the goroutines it wakes.                          *)
(***************************************************************************)
NoWake == [how |-> "none", v |-> Zero, ok |-> FALSE]

\* make(chan T, buffer)
MakeChan(buffer) ==
    [cap |-> buffer, buf |-> <<>>, closed |-> FALSE, sendq |-> <<>>, recvq |-> <<>>]

\* ch <- v (block = TRUE), or the send case of a select with default (block = FALSE)
ChanSend(ch, g, v, block) ==
    IF ch.closed
    THEN [ch |-> ch, out |-> "panic", wake |-> {}]
    ELSE IF ch.recvq # <<>>
    THEN [ch |-> [ch EXCEPT !.recvq = Tail(@)], out |-> "done",
          wake |-> {[g |-> Head(ch.recvq), how |-> "recv", v |-> v, ok |-> TRUE]}]
    ELSE IF Len(ch.buf) < ch.cap
    THEN [ch |-> [ch EXCEPT !.buf = Append(@, v)], out |-> "done", wake |-> {}]
    ELSE IF ~block
    THEN [ch |-> ch, out |-> "full", wake |-> {}]
    ELSE [ch |-> [ch EXCEPT !.sendq = Append(@, [g |-> g, v |-> v])],
          out |-> "parked", wake |-> {}]

\* v, ok := <-ch (block = TRUE), or the receive case of a select with default
ChanRecv(ch, g, block) ==
    IF ch.closed /\ ch.buf = <<>>
    THEN [ch |-> ch, out |-> "done", v |-> Zero, ok |-> FALSE, wake |-> {}]
    ELSE IF ch.sendq # <<>>
    THEN LET sg == Head(ch.sendq) IN
         IF ch.buf = <<>>
         THEN [ch |-> [ch EXCEPT !.sendq = Tail(@)], out |-> "done",
               v |-> sg.v, ok |-> TRUE,
               wake |-> {[g |-> sg.g, how |-> "sent", v |-> Zero, ok |-> TRUE]}]
         ELSE [ch |-> [ch EXCEPT !.sendq = Tail(@),
                                 !.buf = Append(Tail(@), sg.v)],
               out |-> "done", v |-> Head(ch.buf), ok |-> TRUE,
               wake |-> {[g |-> sg.g, how |-> "sent", v |-> Zero, ok |-> TRUE]}]
    ELSE IF ch.buf # <<>>
    THEN [ch |-> [ch EXCEPT !.buf = Tail(@)], out |-> "done",
          v |-> Head(ch.buf), ok |-> TRUE, wake |-> {}]
    ELSE IF ~block
    THEN [ch |-> ch, out |-> "empty", v |-> Zero, ok |-> FALSE, wake |-> {}]
    ELSE [ch |-> [ch EXCEPT !.recvq = Append(@, g)], out |-> "parked",
          v |-> Zero, ok |-> FALSE, wake |-> {}]

\* close(ch): a second close panics; parked receivers get (zero, false),
\* parked senders panic
ChanClose(ch) ==
    IF ch.closed
    THEN [ch |-> ch, out |-> "panic", wake |-> {}]
    ELSE [ch |-> [ch EXCEPT !.closed = TRUE, !.sendq = <<>>, !.recvq = <<>>],
          out |-> "done",
          wake |-> {[g |-> ch.recvq[i], how |-> "recv", v |-> Zero, ok |-> FALSE]
                        : i \in 1..Len(ch.recvq)}
                   \cup
                   {[g |-> ch.sendq[i].g, how |-> "panic", v |-> Zero, ok |-> FALSE]
                        : i \in 1..Len(ch.sendq)}]

Woken(wake) == {w.g : w \in wake}

WakeOf(wake, g) ==
    LET w == CHOOSE x \in wake : x.g = g
    IN  [how |-> w.how, v |-> w.v, ok |-> w.ok]

\* the queue accepts no value without waiting
QueueFull(ch) == Len(ch.buf) >= ch.cap /\ ch.recvq = <<>>

(***************************************************************************)
(* Channel[T]: closed Atomic[bool] (a mutex Locker and val) and ch.        *)
(***************************************************************************)
\* sync.Mutex: the goroutine that holds it, or Unlocked
Unlocked == <<"none", 0>>

MakeChannel(buffer) == [val |-> FALSE, Locker |-> Unlocked, ch |-> MakeChan(buffer)]

\* Atomic.Load and Atomic.Store take Locker for the access: they run as one
\* step, when no goroutine holds Locker
CanLoad(s) == s.Locker = Unlocked

\* a Load that returns the zero value of T instead of val
LoadZero(s) == FALSE

Load(s) == s.val

Store(s, b) == [s EXCEPT !.val = b]

\* a fault anywhere ends the Go program: no goroutine runs after a panic
Alive == \A g \in DOMAIN pc : pc[g] # "panicked"

NoLoc == [op |-> "none", st |-> 0, id |-> 0, v |-> Zero, ok |-> FALSE, late |-> FALSE]

\* the stream a goroutine's call is on
StreamOf(g) == streams[loc[g].st]

\* goroutine g moves to label, done with what woke it; the goroutines in wake
\* become runnable with what they were woken for
Goto(g, label, wake) ==
    /\ pc' = [h \in DOMAIN pc |->
                IF h = g THEN label
                ELSE IF h \in Woken(wake) THEN "woken" ELSE pc[h]]
    /\ wk' = [h \in DOMAIN wk |->
                IF h \in Woken(wake) THEN WakeOf(wake, h)
                ELSE IF h = g THEN NoWake ELSE wk[h]]

\* g's call returns (v, ok). A numbered call (SpecChan's) is recorded with what
\* it met: full, the queue took no value without waiting; left, the values
\* still buffered; shut, the queue was closed
Return(g, v, ok, wake, s2, full) ==
    /\ Goto(g, "idle", wake)
    /\ loc' = [loc EXCEPT ![g].v = v, ![g].ok = ok]
    /\ hist' = IF loc[g].id = 0 THEN hist ELSE hist \cup {[id |-> loc[g].id, op |-> loc[g].op, v |-> v, ok |-> ok,
                           late |-> loc[g].late, full |-> full,
                           left |-> Len(s2.ch.buf), shut |-> s2.ch.closed]}
    /\ closeDone' = (closeDone \/ loc[g].op = "Close")

Panic(g, wake) == Goto(g, "panicked", wake)

\* func (c *Channel[T]) Send(v T)
Send(g) ==
    LET s == StreamOf(g) IN
    /\ Alive
    /\ loc[g].op = "Send"
    /\ \/ /\ pc[g] = "load"
          /\ CanLoad(s)
          /\ IF Load(s)
             THEN Return(g, Zero, FALSE, {}, s, FALSE)
             ELSE Goto(g, "chan", {}) /\ UNCHANGED <<loc, hist, closeDone>>
          /\ UNCHANGED <<streams, calls>>
       \/ /\ pc[g] = "chan"
          /\ LET r == ChanSend(s.ch, g, loc[g].v, TRUE)
                 s2 == [s EXCEPT !.ch = r.ch]
             IN  /\ streams' = [streams EXCEPT ![loc[g].st] = s2]
                 /\ CASE r.out = "panic" ->
                            Panic(g, r.wake) /\ UNCHANGED <<loc, hist, closeDone>>
                      [] r.out = "parked" ->
                            Goto(g, "parked", r.wake) /\ UNCHANGED <<loc, hist, closeDone>>
                      [] OTHER -> Return(g, Zero, TRUE, r.wake, s2, FALSE)
          /\ UNCHANGED calls
       \/ /\ pc[g] = "woken"
          /\ IF wk[g].how = "panic"
             THEN Panic(g, {}) /\ UNCHANGED <<loc, hist, closeDone>>
             ELSE Return(g, Zero, TRUE, {}, s, FALSE)
          /\ UNCHANGED <<streams, calls>>

\* func (c *Channel[T]) TrySend(v T) bool
TrySend(g) ==
    LET s == StreamOf(g) IN
    /\ Alive
    /\ loc[g].op = "TrySend"
    /\ \/ /\ pc[g] = "load"
          /\ CanLoad(s)
          /\ IF Load(s)
             THEN Return(g, Zero, FALSE, {}, s, FALSE)
             ELSE Goto(g, "chan", {}) /\ UNCHANGED <<loc, hist, closeDone>>
          /\ UNCHANGED <<streams, calls>>
       \/ /\ pc[g] = "chan"
          /\ LET r == ChanSend(s.ch, g, loc[g].v, FALSE)
                 s2 == [s EXCEPT !.ch = r.ch]
             IN  /\ streams' = [streams EXCEPT ![loc[g].st] = s2]
                 /\ CASE r.out = "panic" ->
                            Panic(g, r.wake) /\ UNCHANGED <<loc, hist, closeDone>>
                      [] r.out = "parked" ->
                            Goto(g, "parked", r.wake) /\ UNCHANGED <<loc, hist, closeDone>>
                      [] OTHER ->
                            Return(g, Zero, r.out = "done", r.wake, s2, QueueFull(s.ch))
          /\ UNCHANGED calls

\* func (c *Channel[T]) TryRecv() (T, bool): the receive case does not look
\* at the channel's ok, so a closed, empty queue yields (zero, true)
TryRecv(g) ==
    LET s == StreamOf(g) IN
    /\ Alive
    /\ loc[g].op = "TryRecv"
    /\ \/ /\ pc[g] = "load"
          /\ CanLoad(s)
          /\ IF Load(s)
             THEN Return(g, Zero, FALSE, {}, s, FALSE)
             ELSE Goto(g, "chan", {}) /\ UNCHANGED <<loc, hist, closeDone>>
          /\ UNCHANGED <<streams, calls>>
       \/ /\ pc[g] = "chan"
          /\ LET r == ChanRecv(s.ch, g, FALSE)
                 s2 == [s EXCEPT !.ch = r.ch]
             IN  /\ streams' = [streams EXCEPT ![loc[g].st] = s2]
                 /\ IF r.out = "done"
                    THEN Return(g, r.v, TRUE, r.wake, s2, FALSE)
                    ELSE Return(g, Zero, FALSE, r.wake, s2, FALSE)
          /\ UNCHANGED calls

\* func (c *Channel[T]) Recv() (T, bool)
Recv(g) ==
    LET s == StreamOf(g) IN
    /\ Alive
    /\ loc[g].op = "Recv"
    /\ \/ /\ pc[g] = "load"
          /\ CanLoad(s)
          /\ IF Load(s)
             THEN Return(g, Zero, FALSE, {}, s, FALSE)
             ELSE Goto(g, "chan", {}) /\ UNCHANGED <<loc, hist, closeDone>>
          /\ UNCHANGED <<streams, calls>>
       \/ /\ pc[g] = "chan"
          /\ LET r == ChanRecv(s.ch, g, TRUE)
                 s2 == [s EXCEPT !.ch = r.ch]
             IN  /\ streams' = [streams EXCEPT ![loc[g].st] = s2]
                 /\ IF r.out = "parked"
                    THEN Goto(g, "parked", r.wake) /\ UNCHANGED <<loc, hist, closeDone>>
                    ELSE IF r.ok
                    THEN Return(g, r.v, TRUE, r.wake, s2, FALSE)
                    ELSE Return(g, Zero, FALSE, r.wake, s2, FALSE)
          /\ UNCHANGED calls
       \/ /\ pc[g] = "woken"
          /\ IF wk[g].ok
             THEN Return(g, wk[g].v, TRUE, {}, s, FALSE)
             ELSE Return(g, Zero, FALSE, {}, s, FALSE)
          /\ UNCHANGED <<streams, calls>>

\* func (c *Channel[T]) Closed() bool
Closed(g) ==
    LET s == StreamOf(g) IN
    /\ Alive
    /\ loc[g].op = "Closed"
    /\ pc[g] = "load"
    /\ CanLoad(s)
    /\ Return(g, Zero, Load(s), {}, s, FALSE)
    /\ UNCHANGED <<streams, calls>>

\* func (c *Channel[T]) Close(): the flag is read before Locker is taken and
\* stored after it is given back
Close(g) ==
    LET s == StreamOf(g) IN
    /\ Alive
    /\ loc[g].op = "Close"
    /\ \/ /\ pc[g] = "load"
          /\ CanLoad(s)
          /\ IF Load(s)
             THEN Return(g, Zero, FALSE, {}, s, FALSE)
             ELSE Goto(g, "lock", {}) /\ UNCHANGED <<loc, hist, closeDone>>
          /\ UNCHANGED <<streams, calls>>
       \/ /\ pc[g] = "lock"
          /\ s.Locker = Unlocked
          /\ streams' = [streams EXCEPT ![loc[g].st].Locker = g]
          /\ Goto(g, "close", {})
          /\ UNCHANGED <<loc, hist, closeDone, calls>>
       \/ /\ pc[g] = "close"
          /\ LET r == ChanClose(s.ch)
             IN  /\ streams' = [streams EXCEPT ![loc[g].st].ch = r.ch]
                 /\ IF r.out = "panic"
                    THEN Panic(g, r.wake)
                    ELSE Goto(g, "unlock", r.wake)
          /\ UNCHANGED <<loc, hist, closeDone, calls>>
       \/ /\ pc[g] = "unlock"
          /\ streams' = [streams EXCEPT ![loc[g].st].Locker = Unlocked]
          /\ Goto(g, "store", {})
          /\ UNCHANGED <<loc, hist, closeDone, calls>>
       \/ /\ pc[g] = "store"
          /\ CanLoad(s)
          /\ streams' = [streams EXCEPT ![loc[g].st] = Store(s, TRUE)]
          /\ Return(g, Zero, TRUE, {}, Store(s, TRUE), FALSE)
          /\ UNCHANGED calls

Methods == {"Send", "TrySend", "Recv", "TryRecv", "Closed", "Close"}

NoErr == [kind |-> "none", sub |-> 0, held |-> {}]

NoTask == [idx |-> 0, sub |-> 0, data |-> 0]

\* listenOutStream has not been called
NoDispatcher ==
    /\ readChs = {}
    /\ stalled = {}
    /\ scanned = 0
    /\ todo = {}
    /\ rdErr = NoErr
    /\ ctxDone = FALSE
    /\ task = <<>>
    /\ got = <<>>
    /\ drops = {}

\* the zero value of Options
ZeroOptions == [Stdin |-> FALSE, Stdout |-> FALSE, Stderr |-> FALSE, MaxWaitTime |-> 0]

\* a nil map, and the map make(map[string]*Stream) returns
NilMap == [made |-> FALSE, names |-> {}]

MakeMap == [made |-> TRUE, names |-> {}]

\* a nil *os.Process and a nil *os.ProcessState
NilProcess == [set |-> FALSE, Pid |-> -1]

NilState == [set |-> FALSE, code |-> -1]

NoChild == [st |-> "none", code |-> -1, pending |-> {}]

NoLast == [id |-> 0, op |-> "none", dir |-> "none", name |-> 0,
           started |-> FALSE, fault |-> FALSE, ret |-> "none", err |-> "none",
           sent |-> FALSE, steps |-> <<>>]

\* NewProc has not been called
NoProc ==
    /\ opts = ZeroOptions
    /\ p = [options |-> ZeroOptions]
    /\ cmd = [started |-> FALSE, ProcessState |-> NilState]
    /\ child = NoChild
    /\ listening = {}
    /\ last = NoLast

\* listenStdinPipe has not been called
NoStdin ==
    /\ stdinMu = 0
    /\ wrote = <<>>
    /\ inErr = <<>>

\* a goroutine calls a method of the Channel; a sent value is the call's number
Call(g, o) ==
    /\ Alive
    /\ pc[g] = "idle"
    /\ calls < MaxCalls
    /\ calls' = calls + 1
    /\ loc' = [loc EXCEPT ![g] = [op |-> o, st |-> 1, id |-> calls + 1,
                                  v |-> IF o \in {"Send", "TrySend"} THEN calls + 1 ELSE Zero,
                                  ok |-> FALSE, late |-> closeDone]]
    /\ pc' = [pc EXCEPT ![g] = "load"]
    /\ UNCHANGED <<streams, wk, closeDone, hist>>

\* MakeChannel[T](buffer), then the goroutines are started
InitChan ==
    /\ \E buffer \in 0..MaxCap : streams = [x \in {1} |-> MakeChannel(buffer)]
    /\ pc = [g \in Users |-> "idle"]
    /\ loc = [g \in Users |-> NoLoc]
    /\ wk = [g \in Users |-> NoWake]
    /\ calls = 0
    /\ closeDone = FALSE
    /\ hist = {}
    /\ NoDispatcher
    /\ NoProc
    /\ NoStdin

NextChan ==
    \E g \in Users :
        \/ \E o \in Methods : Call(g, o) /\ UNCHANGED <<outVars, procVars, inVars>>
        \/ Send(g) /\ UNCHANGED <<outVars, procVars, inVars>>
        \/ TrySend(g) /\ UNCHANGED <<outVars, procVars, inVars>>
        \/ Recv(g) /\ UNCHANGED <<outVars, procVars, inVars>>
        \/ TryRecv(g) /\ UNCHANGED <<outVars, procVars, inVars>>
        \/ Closed(g) /\ UNCHANGED <<outVars, procVars, inVars>>
        \/ Close(g) /\ UNCHANGED <<outVars, procVars, inVars>>

SpecChan == InitChan /\ [][NextChan]_vars

(***************************************************************************)
(* listenOutStream(ctx, readCloser, readChs): the reader task scans the    *)
(* pipe and submits one dispatch task per chunk and subscriber to the      *)
(* worker pool. SpecOut starts at the call, for every registry of up to    *)
(* two subscribers, each with a goroutine receiving from its Stream or     *)
(* stalled.                                                                *)
(***************************************************************************)
\* the subscriber names, numbered
Names == {1, 2}

\* what SpecOut starts from: the subscribers bound, those of them that never
\* receive, and whether the caller shuts the Proc down during the run.
\* Subscribers differ by name only: one registry of each size, and of two
\* subscribers at most one receives; a shutdown comes with one subscriber.
Bindings ==
    {[subs |-> {}, st |-> {}, shut |-> FALSE],
     [subs |-> {1}, st |-> {}, shut |-> FALSE], [subs |-> {1}, st |-> {1}, shut |-> FALSE],
     [subs |-> {1}, st |-> {}, shut |-> TRUE], [subs |-> {1}, st |-> {1}, shut |-> TRUE],
     [subs |-> {1, 2}, st |-> {2}, shut |-> FALSE],
     [subs |-> {1, 2}, st |-> {1, 2}, shut |-> FALSE]}

Rd == <<"rd", 0>>

\* the goroutine that calls Terminate, Interrupt or Kill while the dispatcher runs
Cl == <<"cl", 0>>

W(i) == <<"w", i>>

S(n) == <<"s", n>>

Workers == 1..PoolSize

IdleWorkers == {i \in Workers : pc[W(i)] = "idle"}

Min(set) == CHOOSE x \in set : \A y \in set : x <= y

\* the reader task returns: errgroup cancels the group's context on the first
\* non-nil error
ReaderReturns(kind, n) ==
    /\ rdErr' = [kind |-> kind, sub |-> n,
                 held |-> {task[i].sub : i \in Workers \ IdleWorkers}]
    /\ pc' = [pc EXCEPT ![Rd] = "done"]
    /\ ctxDone' = (ctxDone \/ kind = "overload")

\* for scanner.Scan(): Scan waits for the child, which writes its next line
\* (Scan returns true) or closes its end of the pipe (end of file: the loop
\* ends and the task returns scanner.Err(), nil)
Scan ==
    /\ pc[Rd] = "scan"
    /\ \/ /\ scanned < MaxChunks
          /\ scanned' = scanned + 1
          /\ pc' = [pc EXCEPT ![Rd] = "ctx"]
          /\ UNCHANGED <<rdErr, ctxDone>>
       \/ /\ ReaderReturns("eof", 0)
          /\ UNCHANGED scanned
    /\ UNCHANGED <<streams, loc, wk, calls, closeDone, hist, readChs, stalled,
                   todo, task, got, drops>>

\* if done, err := isCtxDone(ctx); done { return err }; bs := scanner.Bytes()
CtxCheck ==
    /\ pc[Rd] = "ctx"
    /\ IF ctxDone
       THEN ReaderReturns("cancelled", 0) /\ UNCHANGED todo
       ELSE /\ pc' = [pc EXCEPT ![Rd] = "submit"]
            /\ todo' = readChs
            /\ UNCHANGED <<rdErr, ctxDone>>
    /\ UNCHANGED <<streams, loc, wk, calls, closeDone, hist, readChs, stalled,
                   scanned, task, got, drops>>

\* p.workerPool.Submit(task) of a pool made WithNonblocking(true): the task
\* goes to a free worker, or Submit fails when all workers are busy
PoolSubmit(n) ==
    IF IdleWorkers # {}
    THEN /\ task' = [task EXCEPT ![Min(IdleWorkers)] =
                        [idx |-> scanned, sub |-> n, data |-> 0]]
         /\ pc' = [pc EXCEPT ![W(Min(IdleWorkers))] = "run"]
         /\ todo' = todo \ {n}
         /\ UNCHANGED <<rdErr, ctxDone>>
    ELSE /\ ReaderReturns("overload", n)
         /\ UNCHANGED <<task, todo>>

\* for name, readCh := range readChs: the map is visited in any order
Submit ==
    /\ pc[Rd] = "submit"
    /\ IF todo = {}
       THEN /\ pc' = [pc EXCEPT ![Rd] = "scan"]
            /\ UNCHANGED <<task, todo, rdErr, ctxDone>>
       ELSE \E n \in todo : PoolSubmit(n)
    /\ UNCHANGED <<streams, loc, wk, calls, closeDone, hist, readChs, stalled,
                   scanned, got, drops>>

\* what a task may find at bs when it copies: bs is scanner.Bytes(), a slice
\* of the scanner's buffer that later calls of Scan may overwrite while the
\* task reads it (a data race): the chunk, or what the last Scan put there
BytesAt(idx) == {idx, scanned}

\* the task function returns (the deferred bufferPool.Put runs) and the
\* worker goes back to the pool
TaskEnds(i, wake, why) ==
    /\ Goto(W(i), "idle", wake)
    /\ task' = [task EXCEPT ![i] = NoTask]
    /\ drops' = IF why = "sent" THEN drops
                ELSE drops \cup {[sub |-> task[i].sub, idx |-> task[i].idx, why |-> why]}

\* a goroutine parked in a select leaves the queue when another case fires
Dequeue(ch, g) == [ch EXCEPT !.sendq = SelectSeq(@, LAMBDA e : e.g # g)]

\* The worker runs the task:
\*   buffer := p.bufferPool.Get(); buffer.Reset(); buffer.Write(bs)
\*   select { case <-ctx.Done(): case <-time.After(20 s): case readCh.ch <- buffer.Bytes(): }
\* The copy and the entry of the select are one step: the copy is the task's
\* only access to bs, and a later copy can find all that an earlier one can.
\* On entry a ready case is taken, any one if several are; else the task parks.
TaskRun(i, d) ==
    LET n == task[i].sub
        ch == streams[n].ch
        r == ChanSend(ch, W(i), [idx |-> task[i].idx, data |-> d], TRUE)
    IN
    /\ pc[W(i)] = "run"
    /\ \/ /\ ctxDone
          /\ TaskEnds(i, {}, "ctx")
          /\ UNCHANGED streams
       \/ /\ r.out = "done"
          /\ streams' = [streams EXCEPT ![n].ch = r.ch]
          /\ TaskEnds(i, r.wake, "sent")
       \/ /\ r.out = "panic"
          /\ Panic(W(i), {})
          /\ UNCHANGED <<streams, task, drops>>
       \/ /\ ~ctxDone
          /\ r.out = "parked"
          /\ streams' = [streams EXCEPT ![n].ch = r.ch]
          /\ Goto(W(i), "parked", {})
          /\ task' = [task EXCEPT ![i].data = d]
          /\ UNCHANGED drops
    /\ UNCHANGED <<loc, calls, closeDone, hist, readChs, stalled, scanned, todo, rdErr, ctxDone, got>>

\* a parked task is woken by its timer or by ctx.Done() and drops its chunk.
\* A subscriber that receives does so well within the 20 seconds: the timer
\* fires only for the tasks of a stalled subscriber.
TaskWake(i) ==
    LET n == task[i].sub IN
    /\ pc[W(i)] = "parked"
    /\ streams' = [streams EXCEPT ![n].ch = Dequeue(@, W(i))]
    /\ \/ n \in stalled /\ TaskEnds(i, {}, "timer")
       \/ ctxDone /\ TaskEnds(i, {}, "ctx")
    /\ UNCHANGED <<loc, calls, closeDone, hist, readChs, stalled, scanned, todo, rdErr, ctxDone, got>>

\* a parked task whose send was taken by a receiver, or whose queue was closed
TaskResume(i) ==
    /\ pc[W(i)] = "woken"
    /\ IF wk[W(i)].how = "panic"
       THEN Panic(W(i), {}) /\ UNCHANGED <<task, drops>>
       ELSE TaskEnds(i, {}, "sent")
    /\ UNCHANGED <<streams, loc, calls, closeDone, hist, readChs, stalled,
                   scanned, todo, rdErr, ctxDone, got>>

\* the subscriber's goroutine: it keeps what Recv returned and calls Recv
\* again, until Recv reports the Stream closed
Subscriber(n) ==
    LET g == S(n) IN
    /\ n \in readChs \ stalled
    /\ pc[g] = "idle"
    /\ IF loc[g].op = "Recv" /\ ~loc[g].ok
       THEN pc' = [pc EXCEPT ![g] = "stopped"] /\ UNCHANGED <<loc, got>>
       ELSE /\ got' = IF loc[g].op = "Recv"
                      THEN [got EXCEPT ![n] = Append(@, loc[g].v)] ELSE got
            /\ loc' = [loc EXCEPT ![g] = [NoLoc EXCEPT !.op = "Recv", !.st = n]]
            /\ pc' = [pc EXCEPT ![g] = "load"]
    /\ UNCHANGED <<streams, wk, calls, closeDone, hist, readChs, stalled, scanned, todo, rdErr, ctxDone, task, drops>>

\* close(), as far as it touches the dispatcher of one direction
\* (proc.go:167-181). First `for _, stream := range p.stdoutChs { stream.Close() }`:
\* Cl calls Close on a Stream it has not closed yet
ShutStream(n) ==
    /\ Cl \in DOMAIN pc
    /\ Alive
    /\ pc[Cl] = "idle"
    /\ n \in readChs
    /\ n \notin {h.id : h \in hist}
    /\ loc' = [loc EXCEPT ![Cl] = [NoLoc EXCEPT !.op = "Close", !.st = n, !.id = n]]
    /\ pc' = [pc EXCEPT ![Cl] = "load"]
    /\ UNCHANGED <<streams, wk, calls, closeDone, hist, readChs, stalled, scanned,
                   todo, rdErr, ctxDone, task, got, drops>>

\* then p.stdoutPipe.Close() and p.cancel(): the lines the scanner has
\* buffered can still be scanned, and ctx.Done() is closed
ShutCancel ==
    /\ Cl \in DOMAIN pc
    /\ Alive
    /\ pc[Cl] = "idle"
    /\ readChs \subseteq {h.id : h \in hist}
    /\ ctxDone' = TRUE
    /\ pc' = [pc EXCEPT ![Cl] = "wait"]
    /\ UNCHANGED <<streams, loc, wk, calls, closeDone, hist, readChs, stalled, scanned,
                   todo, rdErr, task, got, drops>>

\* then p.group.Wait() returns when the reader task has returned, and the
\* deferred p.workerPool.Release() runs: running tasks are not stopped
ShutWait ==
    /\ Cl \in DOMAIN pc
    /\ Alive
    /\ pc[Cl] = "wait"
    /\ pc[Rd] = "done"
    /\ pc' = [pc EXCEPT ![Cl] = "released"]
    /\ UNCHANGED <<streams, loc, wk, calls, closeDone, hist, readChs, stalled, scanned,
                   todo, rdErr, ctxDone, task, got, drops>>

\* the goroutines of SpecOut: the reader, the workers, the subscribers and,
\* when the Proc is shut down during the run, the caller of the shutdown
Goroutines(b) ==
    {Rd} \cup {W(i) : i \in Workers} \cup {S(n) : n \in b.subs}
        \cup (IF b.shut THEN {Cl} ELSE {})

\* p.group.Go(func() error {...}) has just started the reader; every Stream of
\* the registry was made by MakeChannel[[]byte](0)
InitOut ==
    /\ \E b \in Bindings : LET subs == b.subs IN
          /\ readChs = subs
          /\ stalled = b.st
          /\ streams = [n \in subs |-> MakeChannel(0)]
          /\ pc = [g \in Goroutines(b) |-> IF g = Rd THEN "scan" ELSE "idle"]
          /\ loc = [g \in Goroutines(b) |-> NoLoc]
          /\ wk = [g \in Goroutines(b) |-> NoWake]
          /\ got = [n \in subs |-> <<>>]
    /\ calls = 0
    /\ closeDone = FALSE
    /\ hist = {}
    /\ scanned = 0
    /\ todo = {}
    /\ rdErr = NoErr
    /\ ctxDone = FALSE
    /\ task = [i \in Workers |-> NoTask]
    /\ drops = {}
    /\ NoProc
    /\ NoStdin

NextOut ==
    \/ Scan /\ UNCHANGED <<procVars, inVars>>
    \/ CtxCheck /\ UNCHANGED <<procVars, inVars>>
    \/ Submit /\ UNCHANGED <<procVars, inVars>>
    \/ \E i \in Workers : \E d \in BytesAt(task[i].idx) :
          TaskRun(i, d) /\ UNCHANGED <<procVars, inVars>>
    \/ \E i \in Workers : TaskWake(i) /\ UNCHANGED <<procVars, inVars>>
    \/ \E i \in Workers : TaskResume(i) /\ UNCHANGED <<procVars, inVars>>
    \/ \E n \in Names : Subscriber(n) /\ UNCHANGED <<procVars, inVars>>
    \/ \E n \in readChs : Recv(S(n)) /\ UNCHANGED <<outVars, procVars, inVars>>
    \/ \E n \in Names : ShutStream(n) /\ UNCHANGED <<procVars, inVars>>
    \/ Cl \in DOMAIN pc /\ Close(Cl) /\ UNCHANGED <<outVars, procVars, inVars>>
    \/ ShutCancel /\ UNCHANGED <<procVars, inVars>>
    \/ ShutWait /\ UNCHANGED <<procVars, inVars>>

SpecOut == InitOut /\ [][NextOut]_vars

(***************************************************************************)
(* The supervisor: a Proc built by NewProc (proc.go) and the binding calls *)
(* StdinPipe, StdoutPipe, StderrPipe. One goroutine, Main, calls the       *)
(* methods one after the other; Wait is called from another goroutine.     *)
(* Terminate, Interrupt and Kill take two steps, close() and the signal.   *)
(***************************************************************************)
\* the directions, in the order close() visits them
Dirs == <<"Stdin", "Stdout", "Stderr">>

DirSet == {Dirs[i] : i \in 1..Len(Dirs)}

Main == <<"m", 0>>

\* the Options a caller can build: each direction on or off, a deadline or none
OptionSets ==
    [Stdin : BOOLEAN, Stdout : BOOLEAN, Stderr : BOOLEAN, MaxWaitTime : {0, 1}]

\* the exit codes of a child that exits by itself; ProcessState.ExitCode() is
\* -1 for a child ended by a signal
ExitCodes == {0, 1}

\* NewProc(ctx, procOptions...): o is opts after the Option functions ran. The
\* Proc literal sets cmd only, so p.options stays the zero Options.
NewProc(o) ==
    [options |-> ZeroOptions,
     proc |-> NilProcess,
     process |-> FALSE,
     state |-> NilState,
     Pipe |-> [d \in DirSet |-> IF o[d] THEN "open" ELSE "nil"],
     Chs |-> [d \in DirSet |-> IF o[d] THEN MakeMap ELSE NilMap],
     group |-> (o.Stdin \/ o.Stdout \/ o.Stderr),
     workerPool |-> IF o.Stdin \/ o.Stdout \/ o.Stderr THEN "open" ELSE "nil",
     cancelled |-> FALSE]

\* a PID that is always the unset one
PIDUnset(q) == -1

\* Proc.PID
PID(q) == IF ~q.proc.set THEN -1 ELSE q.proc.Pid

\* Proc.ExitCode
ExitCode(q) == IF ~q.state.set THEN -1 ELSE q.state.code

\* Proc.IsRunning: process.IsRunning() is true while the pid exists, that is
\* until the exited child has been waited for
IsRunning(q) == IF ~q.process THEN FALSE ELSE child.st \in {"running", "exited"}

\* the three subscriber registries
Registries(q) == [d \in DirSet |-> q.Chs[d]]

\* the Stream bound under name in direction d
StreamId(d, name) == <<d, name>>

\* Main calls a method: the record of the call
Calling(op) == [NoLast EXCEPT !.id = calls + 1, !.op = op, !.started = p.proc.set]

MainCalls ==
    /\ Alive
    /\ pc[Main] = "idle"
    /\ calls < MaxCalls
    /\ calls' = calls + 1

\* StdinPipe(name), StdoutPipe(name), StderrPipe(name): d is the direction
BindPipe(op, d, name) ==
    /\ MainCalls
    /\ LET rec == [Calling(op) EXCEPT !.dir = d, !.name = name] IN
       IF PID(p) # -1
       THEN \* panic("bind pipe after process started")
            /\ pc' = [pc EXCEPT ![Main] = "panicked"]
            /\ last' = [rec EXCEPT !.fault = TRUE]
            /\ UNCHANGED <<p, streams>>
       ELSE IF ~p.options[d]
       THEN /\ last' = [rec EXCEPT !.ret = "nil"]
            /\ UNCHANGED <<pc, p, streams>>
       ELSE IF ~p.Chs[d].made
       THEN \* assignment to an entry of a nil map
            /\ pc' = [pc EXCEPT ![Main] = "panicked"]
            /\ last' = [rec EXCEPT !.fault = TRUE]
            /\ UNCHANGED <<p, streams>>
       ELSE /\ streams' = (StreamId(d, name) :> MakeChannel(0)) @@ streams
            /\ p' = [p EXCEPT !.Chs[d].names = @ \cup {name}]
            /\ last' = [rec EXCEPT !.ret = "stream"]
            /\ UNCHANGED pc
    /\ UNCHANGED <<loc, wk, closeDone, hist, opts, cmd, child, listening>>

StdinPipe(name) == BindPipe("StdinPipe", "Stdin", name)

StdoutPipe(name) == BindPipe("StdoutPipe", "Stdout", name)

StderrPipe(name) == BindPipe("StderrPipe", "Stderr", name)

\* Proc.start: the process info is attached and the listeners of the
\* directions enabled in p.options are started
start(q) ==
    [proc |-> [q EXCEPT !.process = (PID(q) >= 0)],
     listen |-> {d \in DirSet : q.options[d]}]

\* Proc.Start: cmd.Start() fails (the command cannot be run, or was started
\* before) or starts the child; p.proc is set, and then process.NewProcess
\* fails and start() returns its error, or start() goes through
Start ==
    /\ MainCalls
    /\ \/ /\ last' = [Calling("Start") EXCEPT !.err = "start"]
          /\ UNCHANGED <<p, cmd, child, listening>>
       \/ /\ ~cmd.started
          /\ cmd' = [cmd EXCEPT !.started = TRUE]
          /\ child' = [st |-> "running", code |-> -1, pending |-> {}]
          /\ p' = [p EXCEPT !.proc = [set |-> TRUE, Pid |-> 1]]
          /\ last' = [Calling("Start") EXCEPT !.err = "stats"]
          /\ UNCHANGED listening
       \/ /\ ~cmd.started
          /\ cmd' = [cmd EXCEPT !.started = TRUE]
          /\ child' = [st |-> "running", code |-> -1, pending |-> {}]
          /\ LET s == start([p EXCEPT !.proc = [set |-> TRUE, Pid |-> 1]]) IN
                /\ p' = s.proc
                /\ listening' = s.listen
          /\ last' = Calling("Start")
    /\ UNCHANGED <<streams, pc, loc, wk, closeDone, hist, opts>>

\* Proc.Wait, called from a goroutine of its own: cmd.Wait() returns an error
\* at once when the command was not started or was waited for, and otherwise
\* when the child has exited; p.state is set from cmd.ProcessState
Wait ==
    /\ Alive
    /\ IF ~cmd.started \/ cmd.ProcessState.set
       THEN /\ p' = [p EXCEPT !.state = cmd.ProcessState]
            /\ UNCHANGED <<cmd, child>>
       ELSE /\ child.st = "exited"
            /\ child' = [child EXCEPT !.st = "reaped"]
            /\ cmd' = [cmd EXCEPT !.ProcessState = [set |-> TRUE, code |-> child.code]]
            /\ p' = [p EXCEPT !.state = [set |-> TRUE, code |-> child.code]]
    /\ UNCHANGED <<streams, pc, loc, wk, calls, closeDone, hist, opts, listening, last>>

Signals == {"SIGTERM", "SIGINT", "SIGKILL"}

ShutdownOps == {"Terminate", "Interrupt", "Kill"}

\* the signal each of Terminate, Interrupt and Kill sends
SignalOf(op) ==
    IF op = "Terminate" THEN "SIGTERM" ELSE IF op = "Interrupt" THEN "SIGINT" ELSE "SIGKILL"

\* Proc.Signal: nothing without a process; p.proc.Signal queues the signal for
\* a living child and reports a child that was waited for as done
SignalErr(q) ==
    IF ~q.proc.set THEN "none" ELSE IF child.st = "reaped" THEN "done" ELSE "none"

Signalled(q, sig) ==
    IF q.proc.set /\ child.st = "running"
    THEN [child EXCEPT !.pending = @ \cup {sig}]
    ELSE child

\* errors.Join(closeErr, signalErr)
Join(e1, e2) == IF e1 = "none" THEN e2 ELSE IF e2 = "none" THEN e1 ELSE "joined"

\* Proc.Signal called by Main
Signal(sig) ==
    /\ MainCalls
    /\ child' = Signalled(p, sig)
    /\ last' = [Calling("Signal") EXCEPT !.err = SignalErr(p), !.sent = p.proc.set]
    /\ UNCHANGED <<streams, pc, loc, wk, closeDone, hist, opts, p, cmd, listening>>

\* Terminate, Interrupt, Kill: return nil without a process, else go on to close()
Shutdown(op) ==
    /\ MainCalls
    /\ last' = Calling(op)
    /\ pc' = [pc EXCEPT ![Main] = IF ~p.proc.set THEN "idle" ELSE "close"]
    /\ UNCHANGED <<streams, loc, wk, closeDone, hist, opts, p, cmd, child, listening>>

Terminate == Shutdown("Terminate")

Interrupt == Shutdown("Interrupt")

Kill == Shutdown("Kill")

\* the directions whose pipe close() closes: those before the first nil pipe
NilPipes(q) == {i \in 1..Len(Dirs) : q.Pipe[Dirs[i]] = "nil"}

ClosedDirs(q) ==
    {Dirs[i] : i \in {j \in 1..Len(Dirs) : \A k \in NilPipes(q) : j < k}}

\* the Streams close() closes: those of the registries up to the first nil pipe
ClosedStreams(q) ==
    {StreamId(Dirs[i], n) : i \in {j \in 1..Len(Dirs) : \A k \in NilPipes(q) : j <= k},
                            n \in Names}
        \cap DOMAIN streams

\* the statements of close() in the order they run when nothing faults: the
\* Streams and the pipe of each direction, p.cancel(), the wait, and the
\* deferred p.workerPool.Release() when close() returns
CloseOrder ==
    <<"chs.Stdin", "pipe.Stdin", "chs.Stdout", "pipe.Stdout", "chs.Stderr", "pipe.Stderr",
      "cancel", "wait", "release">>

\* the statements a call of close() completes: all of them, or those before
\* the Close() of the first nil pipe
CloseSteps(q) ==
    IF NilPipes(q) = {} THEN CloseOrder
    ELSE SubSeq(CloseOrder, 1, 2 * Min(NilPipes(q)) - 1)

\* Proc.close: the Streams and the pipes are closed one direction after the
\* other, and calling Close on a nil pipe faults; then the pool is released,
\* the context cancelled, and the wait is for the listeners (no deadline) or
\* for cmd.Wait() and the deadline, whichever comes first
close ==
    /\ Alive
    /\ pc[Main] = "close"
    /\ streams' = [id \in DOMAIN streams |->
                      IF id \in ClosedStreams(p) /\ ~Load(streams[id])
                      THEN Store([streams[id] EXCEPT !.ch.closed = TRUE], TRUE)
                      ELSE streams[id]]
    /\ IF NilPipes(p) # {}
       THEN /\ p' = [p EXCEPT !.Pipe = [d \in DirSet |->
                                           IF d \in ClosedDirs(p) THEN "closed" ELSE @[d]]]
            /\ pc' = [pc EXCEPT ![Main] = "panicked"]
            /\ last' = [last EXCEPT !.fault = TRUE, !.steps = CloseSteps(p)]
            /\ UNCHANGED <<cmd, child>>
       ELSE /\ p' = [p EXCEPT !.Pipe = [d \in DirSet |-> "closed"],
                              !.cancelled = TRUE,
                              !.workerPool = "released"]
            /\ pc' = [pc EXCEPT ![Main] = "signal"]
            /\ IF p.options.MaxWaitTime = 0
               THEN /\ listening = {}
                    /\ last' = [last EXCEPT !.steps = CloseSteps(p)]
                    /\ UNCHANGED <<cmd, child>>
               ELSE \/ /\ last' = [last EXCEPT !.err = "deadline", !.steps = CloseSteps(p)]
                       /\ UNCHANGED <<cmd, child>>
                    \/ /\ child.st = "exited"
                       /\ ~cmd.ProcessState.set
                       /\ child' = [child EXCEPT !.st = "reaped"]
                       /\ cmd' = [cmd EXCEPT !.ProcessState = [set |-> TRUE, code |-> child.code]]
                       /\ last' = [last EXCEPT !.steps = CloseSteps(p)]
    /\ UNCHANGED <<loc, wk, calls, closeDone, hist, opts, listening>>

\* the p.Signal(...) that follows close() in Terminate, Interrupt and Kill,
\* and the return of the joined errors
SignalAfterClose ==
    /\ Alive
    /\ pc[Main] = "signal"
    /\ child' = Signalled(p, SignalOf(last.op))
    /\ last' = [last EXCEPT !.err = Join(@, SignalErr(p)), !.sent = TRUE]
    /\ pc' = [pc EXCEPT ![Main] = "idle"]
    /\ UNCHANGED <<streams, loc, wk, calls, closeDone, hist, opts, p, cmd, listening>>

\* the child exits by itself
ChildExits ==
    /\ child.st = "running"
    /\ \E c \in ExitCodes : child' = [child EXCEPT !.st = "exited", !.code = c]
    /\ UNCHANGED <<streams, pc, loc, wk, calls, closeDone, hist, opts, p, cmd, listening, last>>

\* a queued signal reaches the child: SIGKILL ends it, the others end it or
\* are handled
ChildSignal ==
    /\ child.st = "running"
    /\ \E sig \in child.pending :
          \/ child' = [child EXCEPT !.st = "exited", !.code = -1, !.pending = {}]
          \/ /\ sig # "SIGKILL"
             /\ child' = [child EXCEPT !.pending = @ \ {sig}]
    /\ UNCHANGED <<streams, pc, loc, wk, calls, closeDone, hist, opts, p, cmd, listening, last>>

\* NewProc has returned the Proc; no Channel exists yet
Init ==
    /\ opts \in OptionSets
    /\ p = NewProc(opts)
    /\ cmd = [started |-> FALSE, ProcessState |-> NilState]
    /\ child = NoChild
    /\ listening = {}
    /\ last = NoLast
    /\ streams = <<>>
    /\ pc = [g \in {Main} |-> "idle"]
    /\ loc = [g \in {Main} |-> NoLoc]
    /\ wk = [g \in {Main} |-> NoWake]
    /\ calls = 0
    /\ closeDone = FALSE
    /\ hist = {}
    /\ NoDispatcher
    /\ NoStdin

Next ==
    \/ \E name \in Names : StdinPipe(name) /\ UNCHANGED <<outVars, inVars>>
    \/ \E name \in Names : StdoutPipe(name) /\ UNCHANGED <<outVars, inVars>>
    \/ \E name \in Names : StderrPipe(name) /\ UNCHANGED <<outVars, inVars>>
    \/ Start /\ UNCHANGED <<outVars, inVars>>
    \/ Wait /\ UNCHANGED <<outVars, inVars>>
    \/ \E sig \in Signals : Signal(sig) /\ UNCHANGED <<outVars, inVars>>
    \/ Terminate /\ UNCHANGED <<outVars, inVars>>
    \/ Interrupt /\ UNCHANGED <<outVars, inVars>>
    \/ Kill /\ UNCHANGED <<outVars, inVars>>
    \/ close /\ UNCHANGED <<outVars, inVars>>
    \/ SignalAfterClose /\ UNCHANGED <<outVars, inVars>>
    \/ ChildExits /\ UNCHANGED <<outVars, inVars>>
    \/ ChildSignal /\ UNCHANGED <<outVars, inVars>>

Spec == Init /\ [][Next]_vars

(***************************************************************************)
(* The bounded wait of close() (proc.go:184-195) next to Proc.Wait. NewProc *)
(* leaves p.options at its zero value, so in Spec close() never gets here;  *)
(* SpecWait starts in close() at the test of p.options.MaxWaitTime with a   *)
(* maximum wait set, the pipes closed and the context cancelled, and with   *)
(* a goroutine of the caller that calls Proc.Wait.                          *)
(***************************************************************************)
\* the goroutine close() starts for p.cmd.Wait(), and the caller's goroutine
\* that calls Proc.Wait
Hp == <<"h", 0>>

Wt == <<"wt", 0>>

\* where a goroutine goes on when its p.cmd.Wait() has returned
AfterCmdWait(g) == IF g = Hp THEN "send" ELSE "pstate"

\* exec.Cmd.Wait as p.cmd.Wait() runs it: it returns an error at once when
\* c.ProcessState is set; else it calls c.Process.Wait(), which returns the
\* status when the child has exited and this call reaps it, and an error
\* when another call has reaped it; then c.ProcessState = state, nil after
\* an error. cmd.waits counts the calls of c.Process.Wait().
CmdWait(g) ==
    /\ \/ /\ pc[g] = "cmdwait"
          /\ IF cmd.ProcessState.set
             THEN /\ pc' = [pc EXCEPT ![g] = AfterCmdWait(g)]
                  /\ loc' = [loc EXCEPT ![g].ok = FALSE]
                  /\ UNCHANGED cmd
             ELSE /\ pc' = [pc EXCEPT ![g] = "oswait"]
                  /\ cmd' = [cmd EXCEPT !.waits = @ + 1]
                  /\ UNCHANGED loc
          /\ UNCHANGED child
       \/ /\ pc[g] = "oswait"
          /\ child.st \in {"exited", "reaped"}
          /\ loc' = [loc EXCEPT ![g].ok = (child.st = "exited"), ![g].v = child.code]
          /\ child' = [child EXCEPT !.st = "reaped"]
          /\ pc' = [pc EXCEPT ![g] = "setstate"]
          /\ UNCHANGED cmd
       \/ /\ pc[g] = "setstate"
          /\ cmd' = [cmd EXCEPT !.ProcessState =
                        IF loc[g].ok THEN [set |-> TRUE, code |-> loc[g].v] ELSE NilState]
          /\ pc' = [pc EXCEPT ![g] = AfterCmdWait(g)]
          /\ UNCHANGED <<loc, child>>
    /\ UNCHANGED <<streams, wk, calls, closeDone, hist, opts, p, listening, last>>

\* the caller's goroutine calls Proc.Wait
WaitCall ==
    /\ pc[Wt] = "idle"
    /\ calls < MaxCalls
    /\ calls' = calls + 1
    /\ loc' = [loc EXCEPT ![Wt] = [NoLoc EXCEPT !.op = "Wait"]]
    /\ pc' = [pc EXCEPT ![Wt] = "cmdwait"]
    /\ UNCHANGED <<streams, wk, closeDone, hist, opts, p, cmd, child, listening, last>>

\* p.state = p.cmd.ProcessState, and Proc.Wait returns; p.writes counts the
\* assignments
WaitStore ==
    /\ pc[Wt] = "pstate"
    /\ p' = [p EXCEPT !.state = cmd.ProcessState, !.writes = @ + 1]
    /\ pc' = [pc EXCEPT ![Wt] = "idle"]
    /\ UNCHANGED <<streams, loc, wk, calls, closeDone, hist, opts, cmd, child, listening, last>>

\* done := make(chan error); go func() { done <- p.cmd.Wait(); close(done) }()
StartWaiter ==
    /\ pc[Main] = "maxwait"
    /\ p.options.MaxWaitTime # 0
    /\ pc' = [pc EXCEPT ![Main] = "select", ![Hp] = "cmdwait"]
    /\ loc' = [loc EXCEPT ![Hp] = [NoLoc EXCEPT !.op = "Wait"]]
    /\ UNCHANGED <<streams, wk, calls, closeDone, hist, opts, p, cmd, child, listening, last>>

\* case <-time.After(p.options.MaxWaitTime): return context.DeadlineExceeded;
\* the deferred p.workerPool.Release() runs
Deadline ==
    /\ pc[Main] = "select"
    /\ last' = [last EXCEPT !.err = "deadline", !.steps = CloseOrder]
    /\ p' = [p EXCEPT !.workerPool = "released"]
    /\ pc' = [pc EXCEPT ![Main] = "signal"]
    /\ UNCHANGED <<streams, loc, wk, calls, closeDone, hist, opts, cmd, child, listening>>

\* case err := <-done: return err, with the helper's send on the unbuffered
\* done; cmd.Wait() returns nil for a child that exited with code 0
DoneRecv ==
    /\ pc[Main] = "select"
    /\ pc[Hp] = "send"
    /\ last' = [last EXCEPT !.err = IF loc[Hp].ok /\ loc[Hp].v = 0 THEN "none" ELSE "wait",
                            !.steps = CloseOrder]
    /\ p' = [p EXCEPT !.workerPool = "released"]
    /\ pc' = [pc EXCEPT ![Main] = "signal", ![Hp] = "closedone"]
    /\ UNCHANGED <<streams, loc, wk, calls, closeDone, hist, opts, cmd, child, listening>>

\* close(done), and the helper ends
HelperEnds ==
    /\ pc[Hp] = "closedone"
    /\ pc' = [pc EXCEPT ![Hp] = "done"]
    /\ UNCHANGED <<streams, loc, wk, calls, closeDone, hist, opts, p, cmd, child, listening, last>>

\* the options of SpecWait: every direction enabled, a maximum wait set
WaitOptions == [Stdin |-> TRUE, Stdout |-> TRUE, Stderr |-> TRUE, MaxWaitTime |-> 1]

InitWait ==
    /\ opts = WaitOptions
    /\ p = [writes |-> 0] @@
           [NewProc(WaitOptions) EXCEPT !.options = WaitOptions,
                                        !.proc = [set |-> TRUE, Pid |-> 1],
                                        !.process = TRUE,
                                        !.Pipe = [d \in DirSet |-> "closed"],
                                        !.cancelled = TRUE]
    /\ cmd = [started |-> TRUE, ProcessState |-> NilState, waits |-> 0]
    /\ child = [st |-> "running", code |-> -1, pending |-> {}]
    /\ listening = {}
    /\ \E op \in ShutdownOps :
          last = [NoLast EXCEPT !.id = 1, !.op = op, !.started = TRUE]
    /\ streams = <<>>
    /\ pc = [g \in {Main, Hp, Wt} |->
                IF g = Main THEN "maxwait" ELSE IF g = Hp THEN "off" ELSE "idle"]
    /\ loc = [g \in {Main, Hp, Wt} |-> NoLoc]
    /\ wk = [g \in {Main, Hp, Wt} |-> NoWake]
    /\ calls = 0
    /\ closeDone = FALSE
    /\ hist = {}
    /\ NoDispatcher
    /\ NoStdin

NextWait ==
    \/ StartWaiter /\ UNCHANGED <<outVars, inVars>>
    \/ CmdWait(Hp) /\ UNCHANGED <<outVars, inVars>>
    \/ Deadline /\ UNCHANGED <<outVars, inVars>>
    \/ DoneRecv /\ UNCHANGED <<outVars, inVars>>
    \/ HelperEnds /\ UNCHANGED <<outVars, inVars>>
    \/ SignalAfterClose /\ UNCHANGED <<outVars, inVars>>
    \/ WaitCall /\ UNCHANGED <<outVars, inVars>>
    \/ CmdWait(Wt) /\ UNCHANGED <<outVars, inVars>>
    \/ WaitStore /\ UNCHANGED <<outVars, inVars>>
    \/ ChildExits /\ UNCHANGED <<outVars, inVars>>
    \/ ChildSignal /\ UNCHANGED <<outVars, inVars>>

SpecWait == InitWait /\ [][NextWait]_vars

(***************************************************************************)
(* listenStdinPipe(ctx): one task per input subscriber receives from the   *)
(* subscriber's Stream and writes what it received to the child's stdin    *)
(* pipe under p.stdinMu. SpecIn starts when the tasks have been started    *)
(* with two subscribers bound, each with a goroutine of the caller that    *)
(* sends on the subscriber's Stream and may close it.                      *)
(***************************************************************************)
\* the task of input subscriber n, and the caller's goroutine feeding it
In(n) == <<"in", n>>

Pr(n) == <<"pr", n>>

\* a Lock() that returns whoever holds the mutex
MuAlwaysFree(mu) == TRUE

\* p.stdinMu.Lock() returns when no task holds the mutex
MuFree(mu) == mu = 0

\* the task's return value ends it; the first non-nil error of a task of
\* the errgroup cancels the group's context, of which p.ctx is derived
InReturns(n, err) ==
    /\ pc' = [pc EXCEPT ![In(n)] = "done"]
    /\ inErr' = [inErr EXCEPT ![n] = err]
    /\ ctxDone' = (ctxDone \/ err = "write")

\* if done, err := isCtxDone(ctx); done { return err }: a cancelled context
\* makes the task return nil; otherwise it calls stdinCh.Recv()
InCtxCheck(n) ==
    /\ pc[In(n)] = "ctx"
    /\ IF ctxDone
       THEN InReturns(n, "cancelled") /\ UNCHANGED loc
       ELSE /\ loc' = [loc EXCEPT ![In(n)] = [NoLoc EXCEPT !.op = "Recv", !.st = n]]
            /\ pc' = [pc EXCEPT ![In(n)] = "load"]
            /\ UNCHANGED <<inErr, ctxDone>>
    /\ UNCHANGED <<streams, wk, calls, closeDone, hist, stdinMu, wrote>>

\* bs, ok := stdinCh.Recv(); if !ok { return nil }; else on to the Lock()
InRecvd(n) ==
    /\ pc[In(n)] = "idle"
    /\ loc[In(n)].op = "Recv"
    /\ IF loc[In(n)].ok
       THEN pc' = [pc EXCEPT ![In(n)] = "wlock"] /\ UNCHANGED <<inErr, ctxDone>>
       ELSE InReturns(n, "closed")
    /\ UNCHANGED <<streams, loc, wk, calls, closeDone, hist, stdinMu, wrote>>

\* p.stdinMu.Lock()
InLock(n) ==
    /\ pc[In(n)] = "wlock"
    /\ MuFree(stdinMu)
    /\ stdinMu' = n
    /\ pc' = [pc EXCEPT ![In(n)] = "write"]
    /\ UNCHANGED <<streams, loc, wk, calls, closeDone, hist, wrote, inErr, ctxDone>>

\* _, err := p.stdinPipe.Write(bs): the bytes reach the pipe in two parts
\* (a write larger than the pipe's buffer is not atomic); the write fails
\* when the child has exited and the pipe is broken
InWrite(n) ==
    /\ pc[In(n)] \in {"write", "write2"}
    /\ IF child.st = "running"
       THEN /\ wrote' = Append(wrote, [sub |-> n, v |-> loc[In(n)].v,
                                       part |-> IF pc[In(n)] = "write" THEN 1 ELSE 2])
            /\ pc' = [pc EXCEPT ![In(n)] = IF pc[In(n)] = "write" THEN "write2" ELSE "wunlock"]
            /\ UNCHANGED inErr
       ELSE /\ inErr' = [inErr EXCEPT ![n] = "write"]
            /\ pc' = [pc EXCEPT ![In(n)] = "wunlock"]
            /\ UNCHANGED wrote
    /\ UNCHANGED <<streams, loc, wk, calls, closeDone, hist, stdinMu, ctxDone>>

\* p.stdinMu.Unlock()
InUnlock(n) ==
    /\ pc[In(n)] = "wunlock"
    /\ stdinMu' = 0
    /\ pc' = [pc EXCEPT ![In(n)] = "err"]
    /\ UNCHANGED <<streams, loc, wk, calls, closeDone, hist, wrote, inErr, ctxDone>>

\* if err != nil { return fmt.Errorf("%s: %w", name, err) }; else loop
InErrCheck(n) ==
    /\ pc[In(n)] = "err"
    /\ IF inErr[n] = "write"
       THEN InReturns(n, "write")
       ELSE pc' = [pc EXCEPT ![In(n)] = "ctx"] /\ UNCHANGED <<inErr, ctxDone>>
    /\ UNCHANGED <<streams, loc, wk, calls, closeDone, hist, stdinMu, wrote>>

\* the caller sends the next value on subscriber n's Stream, or closes it
Produce(n) ==
    /\ Alive
    /\ pc[Pr(n)] = "idle"
    /\ ~Load(streams[n])
    /\ \/ /\ calls < MaxWrites
          /\ calls' = calls + 1
          /\ loc' = [loc EXCEPT ![Pr(n)] = [NoLoc EXCEPT !.op = "Send", !.st = n,
                                                        !.v = calls + 1]]
       \/ /\ loc' = [loc EXCEPT ![Pr(n)] = [NoLoc EXCEPT !.op = "Close", !.st = n]]
          /\ UNCHANGED calls
    /\ pc' = [pc EXCEPT ![Pr(n)] = "load"]
    /\ UNCHANGED <<streams, wk, closeDone, hist, stdinMu, wrote, inErr, ctxDone>>

\* the child exits by itself: the read end of its stdin pipe is gone
StdinBreaks ==
    /\ child.st = "running"
    /\ child' = [child EXCEPT !.st = "exited", !.code = 0]
    /\ UNCHANGED <<streams, pc, loc, wk, calls, closeDone, hist, opts, p, cmd, listening, last>>

\* Start has run listenStdinPipe: the child runs, the Streams are those of
\* StdinPipe (MakeChannel[[]byte](0)), every task is at the top of its loop
InitIn ==
    /\ streams = [n \in Names |-> MakeChannel(0)]
    /\ pc = [g \in {In(n) : n \in Names} \cup {Pr(n) : n \in Names} |->
                IF g[1] = "in" THEN "ctx" ELSE "idle"]
    /\ loc = [g \in {In(n) : n \in Names} \cup {Pr(n) : n \in Names} |-> NoLoc]
    /\ wk = [g \in {In(n) : n \in Names} \cup {Pr(n) : n \in Names} |-> NoWake]
    /\ calls = 0
    /\ closeDone = FALSE
    /\ hist = {}
    /\ readChs = {}
    /\ stalled = {}
    /\ scanned = 0
    /\ todo = {}
    /\ rdErr = NoErr
    /\ ctxDone = FALSE
    /\ task = <<>>
    /\ got = <<>>
    /\ drops = {}
    /\ opts = ZeroOptions
    /\ p = [options |-> ZeroOptions]
    /\ cmd = [started |-> TRUE, ProcessState |-> NilState]
    /\ child = [st |-> "running", code |-> -1, pending |-> {}]
    /\ listening = {"Stdin"}
    /\ last = NoLast
    /\ stdinMu = 0
    /\ wrote = <<>>
    /\ inErr = [n \in Names |-> "none"]

InFrame == <<readChs, stalled, scanned, todo, rdErr, task, got, drops>>

NextIn ==
    \/ \E n \in Names : InCtxCheck(n) /\ UNCHANGED <<InFrame, procVars>>
    \/ \E n \in Names : Recv(In(n)) /\ UNCHANGED <<outVars, procVars, inVars>>
    \/ \E n \in Names : InRecvd(n) /\ UNCHANGED <<InFrame, procVars>>
    \/ \E n \in Names : InLock(n) /\ UNCHANGED <<InFrame, procVars>>
    \/ \E n \in Names : InWrite(n) /\ UNCHANGED <<InFrame, procVars>>
    \/ \E n \in Names : InUnlock(n) /\ UNCHANGED <<InFrame, procVars>>
    \/ \E n \in Names : InErrCheck(n) /\ UNCHANGED <<InFrame, procVars>>
    \/ \E n \in Names : Produce(n) /\ UNCHANGED <<InFrame, procVars>>
    \/ \E n \in Names : Send(Pr(n)) /\ UNCHANGED <<outVars, procVars, inVars>>
    \/ \E n \in Names : Close(Pr(n)) /\ UNCHANGED <<outVars, procVars, inVars>>
    \/ StdinBreaks /\ UNCHANGED <<InFrame, inVars, ctxDone>>

SpecIn == InitIn /\ [][NextIn]_vars

\* the steps of input task n: all that the goroutine started by p.group.Go
\* does between two returns of control to the scheduler
InTask(n) ==
    \/ InCtxCheck(n) /\ UNCHANGED <<InFrame, procVars>>
    \/ Recv(In(n)) /\ UNCHANGED <<outVars, procVars, inVars>>
    \/ InRecvd(n) /\ UNCHANGED <<InFrame, procVars>>
    \/ InLock(n) /\ UNCHANGED <<InFrame, procVars>>
    \/ InWrite(n) /\ UNCHANGED <<InFrame, procVars>>
    \/ InUnlock(n) /\ UNCHANGED <<InFrame, procVars>>
    \/ InErrCheck(n) /\ UNCHANGED <<InFrame, procVars>>

\* the steps of a Send or Close the caller's goroutine has begun
InCaller(n) ==
    \/ Send(Pr(n)) /\ UNCHANGED <<outVars, procVars, inVars>>
    \/ Close(Pr(n)) /\ UNCHANGED <<outVars, procVars, inVars>>

\* the Go scheduler runs every runnable goroutine: a task that can take a
\* step takes it, and a call the caller has begun goes on. Whether the caller
\* sends again, closes a Stream, or the child exits is up to them.
FairSpecIn ==
    SpecIn /\ \A n \in Names : WF_vars(InTask(n)) /\ WF_vars(InCaller(n))

(***************************************************************************)
(* Properties of the Channel, checked under SpecChan.                      *)
(***************************************************************************)
SendOps == {"Send", "TrySend"}

RecvOps == {"Recv", "TryRecv"}

\* the calls made after a Close had returned
LateIds ==
    {h.id : h \in {x \in hist : x.late}} \cup {loc[g].id : g \in {x \in Users : loc[x].late}}

\* C4: a Send running concurrently with a Close never faults: it is never
\* ended by the panic of a send on a closed queue, whether it had passed its
\* closed check or was already waiting for a receiver.
C4_SendSurvivesClose ==
    \A g \in Users : loc[g].op = "Send" => pc[g] # "panicked"

\* C5: Close never faults, however many goroutines call it and however
\* their calls interleave: the underlying queue is never closed twice.
C5_CloseNeverFaults ==
    \A g \in Users : loc[g].op = "Close" => pc[g] # "panicked"

\* C6: a Send or TrySend called after a Close has returned stops at its
\* closed check and enqueues nothing (TrySend returns false); a TrySend that
\* meets a full queue returns false and never waits; no value of a call made
\* after the close is buffered or received.
C6_NoSendAfterClose ==
    /\ \A g \in Users :
          /\ (loc[g].late /\ loc[g].op \in SendOps) => pc[g] \in {"load", "idle"}
          /\ loc[g].op = "TrySend" => pc[g] \notin {"parked", "woken"}
    /\ \A h \in hist :
          /\ (h.late /\ h.op \in SendOps) => ~h.ok
          /\ (h.op = "TrySend" /\ h.full) => ~h.ok
          /\ (h.op \in RecvOps /\ h.ok) => h.v \notin LateIds
    /\ \A i \in 1..Len(streams[1].ch.buf) : streams[1].ch.buf[i] \notin LateIds

\* C6's case: after a Close returned, a Send and a TrySend were called and
\* have returned, and a TrySend on the open Channel met a full queue.
C6_Witness ==
    /\ \E h \in hist : h.op = "Send" /\ h.late
    /\ \E h \in hist : h.op = "TrySend" /\ h.late
    /\ \E h \in hist : h.op = "TrySend" /\ h.full /\ ~h.shut

\* C7: after Close, receives hand out the buffered values first: a Recv or
\* TryRecv called after a Close has returned reports "closed, no value" only
\* when no value is left in the queue.
C7_DrainBeforeClosed ==
    \A h \in hist : (h.op \in RecvOps /\ h.late /\ ~h.ok) => h.left = 0

(***************************************************************************)
(* Properties of the dispatcher, checked under SpecOut.                    *)
(***************************************************************************)
\* the reader task has returned, every dispatch task has ended and every
\* receiving subscriber has taken what was sent to it
Quiescent ==
    /\ pc[Rd] = "done"
    /\ \A i \in Workers : pc[W(i)] = "idle"
    /\ \A n \in readChs \ stalled : pc[S(n)] = "parked"

\* the chunks subscriber n has received, by their place in the child's output
Received(n) == {got[n][k].idx : k \in 1..Len(got[n])}

BindOps == {"StdinPipe", "StdoutPipe", "StderrPipe"}

\* C8: a binding call made before Start for a direction the caller enabled
\* does not fault, returns a Stream that is open, and the Stream is in that
\* direction's registry under the name.
C8_BindBeforeStartSucceeds ==
    (last.op \in BindOps /\ ~last.started /\ opts[last.dir]) =>
        /\ ~last.fault
        /\ last.ret = "stream"
        /\ last.name \in p.Chs[last.dir].names
        /\ StreamId(last.dir, last.name) \in DOMAIN streams

\* C9: once Start has succeeded no step changes any of the three registries,
\* and every binding call made from then on faults.
C9_BindAfterStartFaults ==
    [][p.proc.set =>
          /\ Registries(p') = Registries(p)
          /\ (last'.id # last.id /\ last'.op \in BindOps) =>
                (last'.fault /\ pc'[Main] = "panicked")]_vars

\* a binding call was made after Start succeeded, and it faulted
C9_Witness ==
    /\ p.proc.set
    /\ last.op \in BindOps
    /\ last.started
    /\ last.fault

\* C10: when Terminate, Interrupt or Kill has returned on a started Proc the
\* child is not running and ExitCode is the child's exit code, or -1 when the
\* wait in close() ran into its deadline.
C10_ShutdownEndsChild ==
    (last.op \in ShutdownOps /\ last.started /\ pc[Main] = "idle") =>
        /\ ~IsRunning(p)
        /\ \/ child.st \in {"exited", "reaped"} /\ ExitCode(p) = child.code
           \/ last.err \in {"deadline", "joined"} /\ ExitCode(p) = -1
\* Main is between the call and the return of Terminate, Interrupt or Kill
InShutdown == pc[Main] \in {"close", "signal"}

\* C11: with a maximum wait configured by WithMaxWaitTime and a child that
\* does not exit, a Terminate that has returned reports the deadline error,
\* and its signal was delivered after the wait.
C11_BoundedShutdownWait ==
    (/\ last.op = "Terminate"
     /\ last.started
     /\ pc[Main] = "idle"
     /\ opts.MaxWaitTime # 0
     /\ child.st = "running")
        => (last.err \in {"deadline", "joined"} /\ last.sent)

\* C12: a Terminate, Interrupt or Kill called on a started Proc has, when the
\* call is over, gone through the shutdown sequence and then delivered its
\* signal.
C12_SignalFollowsShutdown ==
    (last.op \in ShutdownOps /\ last.started /\ ~InShutdown) => last.sent

\* C13: a Start called on a Proc that was not started and that returned an
\* error leaves it as NewProc made it: PID is -1, no process info is
\* attached, no listener runs, no child exists, and the error is the one the
\* failing call gave.
C13_FailedStartStaysCreated ==
    (last.op = "Start" /\ ~last.started /\ last.err # "none") =>
        /\ PID(p) = -1
        /\ ~p.process
        /\ listening = {}
        /\ child.st = "none"
        /\ last.err = "start"

\* C15: what an input subscriber sends is written to the child's stdin: on a
\* Proc made with stdin enabled, once Start has succeeded the tasks that take
\* the values from the bound Streams and write them are running.
C15_StdinIsDelivered ==
    (opts.Stdin /\ p.process) => "Stdin" \in listening

\* C18: as long as no Start has succeeded, PID is -1, and a Signal,
\* Terminate, Interrupt or Kill returns no error, delivers no signal, closes
\* no pipe and does not cancel the context.
C18_NoEffectBeforeStart ==
    ~p.process =>
        /\ PID(p) = -1
        /\ last.op \in ShutdownOps \cup {"Signal"} =>
              /\ pc[Main] = "idle"
              /\ ~last.sent
              /\ last.err = "none"
              /\ ~p.cancelled
              /\ \A d \in DirSet : p.Pipe[d] # "closed"

\* C20: Terminate, Interrupt and Kill never fault, whatever directions the
\* Proc was made with.
C20_ShutdownNeverFaults ==
    last.op \in ShutdownOps => ~last.fault

\* the caller has begun a shutdown
ShutdownBegun == Cl \in DOMAIN pc /\ loc[Cl].op # "none"

Writing == {n \in Names : In(n) \in DOMAIN pc /\ pc[In(n)] \in {"write", "write2", "wunlock"}}

\* C16: at any moment at most one input subscriber's task is inside a write
\* to the stdin pipe, and the bytes of one write are not interleaved with
\* another subscriber's: the second part of a write follows its first part
\* directly.
C16_StdinWritesSerialized ==
    /\ Cardinality(Writing) <= 1
    /\ \A k \in 1..Len(wrote) :
          wrote[k].part = 2 => (k > 1 /\ wrote[k - 1] = [wrote[k] EXCEPT !.part = 1])

\* one task is in the middle of its write while the other has a value to
\* write and waits for the mutex
C16_Witness ==
    /\ In(1) \in DOMAIN pc
    /\ \E n, m \in Names : pc[In(n)] = "write2" /\ pc[In(m)] = "wlock"

StepAt(s) ==
    IF \E k \in 1..Len(last.steps) : last.steps[k] = s
    THEN CHOOSE k \in 1..Len(last.steps) : last.steps[k] = s
    ELSE 0

\* statement a ran before statement b, when b ran at all
RanBefore(a, b) == StepAt(b) # 0 => (StepAt(a) # 0 /\ StepAt(a) < StepAt(b))

\* C21: in every shutdown the Streams of a direction are closed before the
\* direction's pipe, stdin comes before stdout and stdout before stderr, and
\* the context is cancelled and the worker pool released before the final
\* wait begins.
C21_ShutdownStepOrder ==
    last.op \in ShutdownOps =>
        /\ \A d \in DirSet : RanBefore("chs." \o d, "pipe." \o d)
        /\ RanBefore("pipe.Stdin", "chs.Stdout")
        /\ RanBefore("pipe.Stdout", "chs.Stderr")
        /\ RanBefore("cancel", "wait")
        /\ RanBefore("release", "wait")

=============================================================================
